---- MODULE Spec2Model ----
(***************************************************************************)
(* Model of src/app.py: the /upload request handler, the CLIP based outfit *)
(* analyzer and the two chat-completion clients.                           *)
(*                                                                         *)
(* Strings are sequences of string tokens, so that a template with values  *)
(* interpolated is a concatenation.  Python values that may reach the JSON *)
(* response are records [type, val] (type is "str", "None" or "int").      *)
(* Requests are handled one at a time (spec.md section 5).                 *)
(***************************************************************************)
EXTENDS Integers, Sequences, FiniteSets, TLC

VARIABLES pc, request, disk, disk_before, image_path, saved_to, mock,
          feedback, outfit_description, recommendations,
          remixing_suggestions, posts, steps, response, seen

vars == <<pc, request, disk, disk_before, image_path, saved_to, mock,
          feedback, outfit_description, recommendations,
          remixing_suggestions, posts, steps, response, seen>>

\* Number of probability levels above 0 that a model output may take.
MaxProb == 2

\* Number of labels of a list whose probability is above the lowest level.
MaxRaised == 4

\* How many labels analyze_outfit keeps per list ([:3]).
TopK == 3

None == [type |-> "None", val |-> <<>>]
PyStr(tokens) == [type |-> "str", val |-> tokens]
PyInt(tokens) == [type |-> "int", val |-> tokens]

\* A value not yet assigned (a local before its assignment).
Unset == [type |-> "unset", val |-> <<>>]

(***************************************************************************)
(* File system.  Paths are sequences of components; a client file name is  *)
(* [abs, parts].  The process runs in /app, 'uploads' was created at       *)
(* startup.                                                                *)
(***************************************************************************)
cwd == <<"app">>
uploads == <<"app", "uploads">>
Dirs == {<<>>, <<"app">>, <<"app", "uploads">>, <<"tmp">>}

EmptyName == [abs |-> FALSE, parts |-> <<>>]

\* os.path.join('uploads', filename): an absolute second argument discards
\* the first one.
join(filename) ==
    IF filename.abs THEN filename
    ELSE [abs |-> FALSE, parts |-> <<"uploads">> \o filename.parts]

Parent(dir) == IF dir = <<>> THEN <<>> ELSE SubSeq(dir, 1, Len(dir) - 1)

NoTarget == <<"?">>

\* The file that open(path, 'wb') names, as the kernel resolves it: every
\* component but the last must be an existing directory, '..' is the parent,
\* and the last component must not be a directory.  NoTarget when the open
\* fails.
RECURSIVE Walk(_, _)
Walk(dir, parts) ==
    IF parts = <<>> THEN NoTarget
    ELSE LET c == Head(parts)
             next == IF c = ".." THEN Parent(dir) ELSE Append(dir, c)
         IN  IF Len(parts) = 1
             THEN IF c = ".." \/ next \in Dirs THEN NoTarget ELSE next
             ELSE IF next \in Dirs THEN Walk(next, Tail(parts)) ELSE NoTarget

Resolve(path) == Walk(IF path.abs THEN <<>> ELSE cwd, path.parts)

IsPrefix(s, t) == Len(s) <= Len(t) /\ SubSeq(t, 1, Len(s)) = s

\* A file lies inside the uploads directory.
InsideUploads(target) == IsPrefix(uploads, target) /\ Len(target) > Len(uploads)

\* file.save(image_path): create or overwrite the file with the upload.
save(d, target, content) ==
    [p \in DOMAIN d \cup {target} |-> IF p = target THEN content ELSE d[p]]

(***************************************************************************)
(* analyze_outfit: the two vocabularies and the top three by probability.  *)
(***************************************************************************)
clothing_items == <<"suit", "t-shirt", "jeans", "dress", "jacket", "shorts",
                    "skirt", "hoodie", "shirt", "sweater">>
styles == <<"casual", "formal", "sporty", "elegant", "bohemian", "streetwear">>

\* zip(labels, probs): pairs <<label, probability>>.
zip(labels, probs) == [i \in 1..Len(labels) |-> <<labels[i], probs[i]>>]

\* Mutant of InsertDesc: x goes before the pairs of equal probability, as an
\* unstable sort (or a sort of the reversed list) would place it.
RECURSIVE InsertDesc_unstable(_, _)
InsertDesc_unstable(sortedSeq, x) ==
    IF sortedSeq = <<>> THEN <<x>>
    ELSE IF Head(sortedSeq)[2] > x[2]
         THEN <<Head(sortedSeq)>> \o InsertDesc_unstable(Tail(sortedSeq), x)
         ELSE <<x>> \o sortedSeq

\* Insert pair x into a list that is sorted by descending probability, after
\* every pair whose probability is at least x's: sorted(..., reverse=True) is
\* stable, pairs of equal probability keep their input order.
RECURSIVE InsertDesc(_, _)
InsertDesc(sortedSeq, x) ==
    IF sortedSeq = <<>> THEN <<x>>
    ELSE IF Head(sortedSeq)[2] >= x[2]
         THEN <<Head(sortedSeq)>> \o InsertDesc(Tail(sortedSeq), x)
         ELSE <<x>> \o sortedSeq

RECURSIVE SortedFrom(_, _, _)
SortedFrom(pairs, i, acc) ==
    IF i > Len(pairs) THEN acc
    ELSE SortedFrom(pairs, i + 1, InsertDesc(acc, pairs[i]))

\* sorted(pairs, key=lambda x: x[1], reverse=True)
sorted(pairs) == SortedFrom(pairs, 1, <<>>)

\* sorted(zip(labels, probs), key=..., reverse=True)[:3]
top(labels, probs) == SubSeq(sorted(zip(labels, probs)), 1, TopK)

feedbackOf(top_styles) ==
    PyStr(<<"This outfit is ", top_styles[1][1], "! It also works well for ",
          top_styles[2][1], " and ", top_styles[3][1], ".">>)

descriptionOf(top_items) ==
    PyStr(<<"The outfit includes a ", top_items[1][1], ", ", top_items[2][1],
          ", and ", top_items[3][1], ".">>)

AnalysisFallback ==
    <<PyStr(<<"Error analyzing outfit.">>), PyStr(<<"Outfit analysis failed.">>)>>

ModelError == [ok |-> FALSE, items |-> <<>>, styles |-> <<>>]

\* analyze_outfit(image_path): image is what Image.open finds in the file,
\* m is what the CLIP model does on it.
analyze_outfit(image, m) ==
    IF image # "image" \/ ~m.ok THEN AnalysisFallback
    ELSE <<feedbackOf(top(styles, m.styles)),
           descriptionOf(top(clothing_items, m.items))>>

(***************************************************************************)
(* The chat-completion endpoint.  An outcome of requests.post is           *)
(* [net, status, json]: net says whether the exchange itself worked, status*)
(* is the HTTP status, json is the shape of the body (fields that a shape  *)
(* does not have are "-").                                                 *)
(***************************************************************************)
Json(t, choices, first, message, content) ==
    [t |-> t, choices |-> choices, first |-> first, message |-> message,
     content |-> content]

Resp(net, status, json) == [net |-> net, status |-> status, json |-> json]

NoBody == Json("-", "-", "-", "-", "-")

\* Bodies whose top level is not an object, or is not JSON at all.
ScalarBodies ==
    { Json(t, "-", "-", "-", "-") :
        t \in {"invalid", "null", "number", "string", "string_choices",
               "list", "list_choices"} }

\* Objects, by what they hold under 'choices'.
ChoicesBodies ==
    { Json("dict", c, "-", "-", "-") :
        c \in {"absent", "null", "number", "empty_list", "empty_string",
               "string", "dict"} }

\* Objects with a non-empty 'choices' list, by its first element.
FirstBodies ==
    { Json("dict", "list", f, "-", "-") : f \in {"null", "string", "list"} }

\* ... whose first choice is an object, by what it holds under 'message'.
MessageBodies ==
    { Json("dict", "list", "dict", m, "-") :
        m \in {"absent", "null", "string", "list"} }

\* ... whose message is an object, by what it holds under 'content'.
ContentBodies ==
    { Json("dict", "list", "dict", "dict", c) :
        c \in {"absent", "null", "number", "text_a", "text_b"} }

Bodies ==
    ScalarBodies \cup ChoicesBodies \cup FirstBodies \cup MessageBodies
        \cup ContentBodies

WellFormed(json) ==
    json \in ContentBodies /\ json.content \in {"text_a", "text_b"}

\* Every outcome of the POST: no response at all, an HTTP error status, or a
\* 200 with one of the bodies.
AllResponses ==
    { Resp(n, 0, NoBody) : n \in {"connection_error", "timeout"} }
        \cup { Resp("ok", st, NoBody) : st \in {401, 429, 500} }
        \cup { Resp("ok", 200, b) : b \in Bodies }

\* The outcomes the request handling is explored with.
Responses ==
    { Resp("connection_error", 0, NoBody), Resp("ok", 500, NoBody),
      Resp("ok", 200, Json("invalid", "-", "-", "-", "-")),
      Resp("ok", 200, Json("dict", "absent", "-", "-", "-")),
      Resp("ok", 200, Json("dict", "list", "dict", "absent", "-")),
      Resp("ok", 200, Json("dict", "list", "dict", "dict", "null")),
      Resp("ok", 200, Json("dict", "list", "dict", "dict", "text_a")),
      Resp("ok", 200, Json("dict", "list", "dict", "dict", "text_b")) }

\* requests.post raising, or raise_for_status raising on a 4xx or 5xx.
ApiFailure(r) == r.net \in {"connection_error", "timeout"} \/ r.status >= 400

\* What the try block of generate_suggestions does after the POST:
\* [raised, value] where raised is "" (a value is returned), or the class of
\* the exception: "RequestException" or "Exception".
extract(r) ==
    LET j == r.json
        raise(cls, what) == [raised |-> cls, value |-> PyStr(<<what>>)]
        ret(v) == [raised |-> "", value |-> v]
        noChoices ==
            ret(PyStr(<<"Error: No 'choices' found in API response: ",
                        j.t, j.choices>>))
    IN  IF r.net # "ok" THEN raise("RequestException", r.net)
        ELSE IF r.status >= 400 THEN raise("RequestException", "HTTPError")
        \* response.json(): requests.exceptions.JSONDecodeError is a
        \* RequestException (requests >= 2.27).
        ELSE IF j.t = "invalid" THEN raise("RequestException", "JSONDecodeError")
        \* "choices" in response_json
        ELSE IF j.t \in {"null", "number"} THEN raise("Exception", "TypeError")
        ELSE IF j.t \in {"string", "list"} THEN noChoices
        \* response_json["choices"] on a str or a list
        ELSE IF j.t \in {"string_choices", "list_choices"}
             THEN raise("Exception", "TypeError")
        ELSE IF j.choices = "absent" THEN noChoices
        \* len(response_json["choices"])
        ELSE IF j.choices \in {"null", "number"} THEN raise("Exception", "TypeError")
        ELSE IF j.choices \in {"empty_list", "empty_string"} THEN noChoices
        \* response_json["choices"][0]
        ELSE IF j.choices = "dict" THEN raise("Exception", "KeyError")
        ELSE IF j.choices = "string" THEN raise("Exception", "TypeError")
        \* ...["message"]
        ELSE IF j.first # "dict" THEN raise("Exception", "TypeError")
        ELSE IF j.message = "absent" THEN raise("Exception", "KeyError")
        \* ...["content"]
        ELSE IF j.message # "dict" THEN raise("Exception", "TypeError")
        ELSE IF j.content = "absent" THEN raise("Exception", "KeyError")
        ELSE IF j.content = "null" THEN ret(None)
        ELSE IF j.content = "number" THEN ret(PyInt(<<"number">>))
        ELSE ret(PyStr(<<j.content>>))

\* The two except clauses, which differ in the second one's prefix.
suggest(r, prefix) ==
    LET x == extract(r)
    IN  IF x.raised = "" THEN x.value
        ELSE IF x.raised = "RequestException"
             THEN PyStr(<<"Network error during API call: ">> \o x.value.val)
             ELSE PyStr(<<prefix>> \o x.value.val)

generate_suggestions(r) == suggest(r, "Error generating suggestions: ")

generate_remixing_suggestions(r) ==
    suggest(r, "Error generating remixing suggestions: ")

\* The user message of each request: the analyzer's string in the template.
suggestions_prompt(style) ==
    <<"Suggest 3 outfits for a ">> \o style.val
        \o <<" look. Keep it short and simple.">>

remixing_prompt(description) ==
    <<"The user is wearing: ">> \o description.val
        \o <<". Suggest 3 ways to remix this outfit.">>

(***************************************************************************)
(* Inputs of the exploration.                                              *)
(***************************************************************************)
Name(abs, parts) == [abs |-> abs, parts |-> parts]

\* Client supplied file names: '', 'photo.png', 'b.png', '../app.py',
\* '/tmp/x', 'sub/photo.png', '..'.
Filenames ==
    { EmptyName, Name(FALSE, <<"photo.png">>), Name(FALSE, <<"b.png">>),
      Name(FALSE, <<"..", "app.py">>), Name(TRUE, <<"tmp", "x">>),
      Name(FALSE, <<"sub", "photo.png">>), Name(FALSE, <<"..">>) }

\* What the uploaded bytes are.
Contents == {"image", "garbage"}

NoRequest == [has_file |-> FALSE, filename |-> EmptyName, content |-> "-"]

Requests ==
    {NoRequest} \cup
    { [has_file |-> TRUE, filename |-> f, content |-> c] :
        f \in Filenames, c \in Contents }

\* Probability vectors over n labels.  Probabilities are only compared, so a
\* level 0..MaxProb stands for the probability; at most MaxRaised labels are
\* above the lowest level.
Raised(p) == Cardinality({i \in DOMAIN p : p[i] > 0})

AllProbs(n) == {p \in [1..n -> 0..MaxProb] : Raised(p) <= MaxRaised}

Uniform(n) == [i \in 1..n |-> 0]

ModelOutput(items, styleProbs) ==
    [ok |-> TRUE, items |-> items, styles |-> styleProbs]

\* The analyzer has not been reached.
NotRun == [ok |-> FALSE, items |-> <<>>, styles |-> <<"not run">>]

\* What the model would do on the image: fail, or score both lists.
ModelOutcomes ==
    {ModelError} \cup
    { ModelOutput([i \in 1..Len(clothing_items) |-> (i * k) % (MaxProb + 1)],
                  [i \in 1..Len(styles) |-> (i * k) % (MaxProb + 1)]) :
        k \in 0..MaxProb }

NoResp == Resp("-", 0, NoBody)

NoMock == [model |-> NotRun, resp1 |-> NoResp, resp2 |-> NoResp]

NoResponse == [status |-> 0, body |-> <<>>]

NotSeen == [input |-> <<>>, response |-> NoResponse, current |-> FALSE]

\* jsonify(...), status
Reply(status, body) == [status |-> status, body |-> body]

ErrorBody(tokens) == "error" :> PyStr(tokens)

\* What decides the response of the request being handled.
Input == <<request, mock>>

\* The files of the machine before any request: the program itself.
InitialDisk == <<"app", "app.py">> :> "source"

Init ==
    /\ pc = "idle"
    /\ request = NoRequest
    /\ disk = InitialDisk
    /\ disk_before = InitialDisk
    /\ image_path = EmptyName
    /\ saved_to = NoTarget
    /\ mock = NoMock
    /\ feedback = Unset
    /\ outfit_description = Unset
    /\ recommendations = Unset
    /\ remixing_suggestions = Unset
    /\ posts = <<>>
    /\ steps = <<>>
    /\ response = NoResponse
    /\ seen = NotSeen

(***************************************************************************)
(* upload(), one action per statement that can fail or block.              *)
(***************************************************************************)

\* Mutant of validate: the check of the empty file name is missing.
validate_no_name_check(req) ==
    IF ~req.has_file THEN <<"No file uploaded">> ELSE <<>>

\* Lines 40-48: the error a request is refused with, <<>> when it is valid.
validate(req) ==
    IF ~req.has_file THEN <<"No file uploaded">>
    ELSE IF req.filename = EmptyName THEN <<"No file selected">>
    ELSE <<>>

\* Lines 42 and 48: the answer to a request that fails validation.
refuse(error) == Reply(400, ErrorBody(error))

\* Mutant of outer_handler: the status is left out of the return, so that
\* the error is answered 200.
outer_handler_no_status(e) == Reply(200, ErrorBody(<<"Error in /upload: ", e>>))

\* Lines 76-80: the outer handler's answer to an exception.
outer_handler(e) == Reply(500, ErrorBody(<<"Error in /upload: ", e>>))

\* Lines 38-48: a request arrives and is validated.
receive(req) ==
    /\ pc \in {"idle", "done"}
    /\ request' = req
    /\ disk_before' = disk
    /\ image_path' = EmptyName
    /\ saved_to' = NoTarget
    /\ mock' = NoMock
    /\ feedback' = Unset
    /\ outfit_description' = Unset
    /\ recommendations' = Unset
    /\ remixing_suggestions' = Unset
    /\ posts' = <<>>
    /\ seen' = IF seen = NotSeen THEN seen ELSE [seen EXCEPT !.current = FALSE]
    /\ IF validate(req) # <<>>
       THEN /\ response' = refuse(validate(req))
            /\ steps' = <<"validate", "respond">>
            /\ pc' = "done"
       ELSE /\ response' = NoResponse
            /\ steps' = <<"validate">>
            /\ pc' = "validated"
    /\ UNCHANGED disk

\* Mutant of save_file: the file is opened in exclusive mode, so that saving
\* over a file left by an earlier request raises.
save_file_exclusive ==
    /\ pc = "validated"
    /\ image_path' = join(request.filename)
    /\ LET target == Resolve(join(request.filename))
       IN  IF target = NoTarget \/ target \in DOMAIN disk
           THEN /\ response' = Reply(500, ErrorBody(<<"Error in /upload: ", "OSError">>))
                /\ steps' = steps \o <<"save", "respond">>
                /\ pc' = "done"
                /\ UNCHANGED <<disk, saved_to>>
           ELSE /\ disk' = save(disk, target, request.content)
                /\ saved_to' = target
                /\ steps' = Append(steps, "save")
                /\ pc' = "saved"
                /\ UNCHANGED response
    /\ UNCHANGED <<request, disk_before, mock, feedback, outfit_description,
                   recommendations, remixing_suggestions, posts, seen>>

\* Lines 51-55, and 76-80 when file.save raises.
save_file ==
    /\ pc = "validated"
    /\ image_path' = join(request.filename)
    /\ LET target == Resolve(join(request.filename))
       IN  IF target = NoTarget
           THEN /\ response' = outer_handler("OSError")
                /\ steps' = steps \o <<"save", "respond">>
                /\ pc' = "done"
                /\ UNCHANGED <<disk, saved_to>>
           ELSE /\ disk' = save(disk, target, request.content)
                /\ saved_to' = target
                /\ steps' = Append(steps, "save")
                /\ pc' = "saved"
                /\ UNCHANGED response
    /\ UNCHANGED <<request, disk_before, mock, feedback, outfit_description,
                   recommendations, remixing_suggestions, posts, seen>>

\* Mutant of analyze: analyze_outfit without its try/except, a failure of the
\* analysis reaches the outer handler.
analyze_unguarded(m) ==
    /\ pc = "saved"
    /\ mock' = [mock EXCEPT !.model = m]
    /\ IF disk[Resolve(image_path)] # "image" \/ ~m.ok
       THEN /\ response' = Reply(500, ErrorBody(<<"Error in /upload: ", "analysis">>))
            /\ steps' = steps \o <<"analyze", "respond">>
            /\ pc' = "done"
            /\ UNCHANGED <<feedback, outfit_description>>
       ELSE /\ feedback' = analyze_outfit("image", m)[1]
            /\ outfit_description' = analyze_outfit("image", m)[2]
            /\ steps' = Append(steps, "analyze")
            /\ pc' = "analyzed"
            /\ UNCHANGED response
    /\ UNCHANGED <<request, disk, disk_before, image_path, saved_to,
                   recommendations, remixing_suggestions, posts, seen>>

\* Line 58: analyze_outfit(image_path) on the file as it is on disk.
analyze(m) ==
    /\ pc = "saved"
    /\ LET image == disk[Resolve(image_path)]
           result == analyze_outfit(image, m)
       IN  /\ feedback' = result[1]
           /\ outfit_description' = result[2]
    /\ mock' = [mock EXCEPT !.model = m]
    /\ steps' = Append(steps, "analyze")
    /\ pc' = "analyzed"
    /\ UNCHANGED <<request, disk, disk_before, image_path, saved_to,
                   recommendations, remixing_suggestions, posts, response, seen>>

\* Mutant of suggestions: a failed POST is made again.
suggestions_retry(r) ==
    /\ pc = "analyzed"
    /\ posts' = Append(posts, suggestions_prompt(feedback))
    /\ recommendations' = generate_suggestions(r)
    /\ mock' = [mock EXCEPT !.resp1 = r]
    /\ steps' = Append(steps, "suggest")
    /\ pc' = IF ApiFailure(r) /\ Len(posts) < 2 THEN "analyzed" ELSE "suggested"
    /\ UNCHANGED <<request, disk, disk_before, image_path, saved_to, feedback,
                   outfit_description, remixing_suggestions, response, seen>>

\* Mutant of suggestions: generate_suggestions without its except clauses, a
\* failure of the POST reaches the outer handler.
suggestions_unguarded(r) ==
    /\ pc = "analyzed"
    /\ posts' = Append(posts, suggestions_prompt(feedback))
    /\ mock' = [mock EXCEPT !.resp1 = r]
    /\ IF extract(r).raised # ""
       THEN /\ response' = Reply(500, ErrorBody(<<"Error in /upload: ">> \o extract(r).value.val))
            /\ steps' = steps \o <<"suggest", "respond">>
            /\ pc' = "done"
            /\ UNCHANGED recommendations
       ELSE /\ recommendations' = extract(r).value
            /\ steps' = Append(steps, "suggest")
            /\ pc' = "suggested"
            /\ UNCHANGED response
    /\ UNCHANGED <<request, disk, disk_before, image_path, saved_to, feedback,
                   outfit_description, remixing_suggestions, seen>>

\* Line 63: generate_suggestions(feedback), r being what the POST meets.
suggestions(r) ==
    /\ pc = "analyzed"
    /\ posts' = Append(posts, suggestions_prompt(feedback))
    /\ recommendations' = generate_suggestions(r)
    /\ mock' = [mock EXCEPT !.resp1 = r]
    /\ steps' = Append(steps, "suggest")
    /\ pc' = "suggested"
    /\ UNCHANGED <<request, disk, disk_before, image_path, saved_to, feedback,
                   outfit_description, remixing_suggestions, response, seen>>

\* Line 67: generate_remixing_suggestions(outfit_description).
remixing(r) ==
    /\ pc = "suggested"
    /\ posts' = Append(posts, remixing_prompt(outfit_description))
    /\ remixing_suggestions' = generate_remixing_suggestions(r)
    /\ mock' = [mock EXCEPT !.resp2 = r]
    /\ steps' = Append(steps, "remix")
    /\ pc' = "remixed"
    /\ UNCHANGED <<request, disk, disk_before, image_path, saved_to, feedback,
                   outfit_description, recommendations, response, seen>>

\* Mutant of respond: the uploaded file is removed before the answer.
respond_cleanup ==
    /\ pc = "remixed"
    /\ response' = Reply(200, ("feedback" :> feedback)
                                @@ ("recommendations" :> recommendations)
                                @@ ("remixing_suggestions" :> remixing_suggestions))
    /\ disk' = [p \in DOMAIN disk \ {saved_to} |-> disk[p]]
    /\ steps' = Append(steps, "respond")
    /\ pc' = "done"
    /\ UNCHANGED <<request, disk_before, image_path, saved_to, mock,
                   feedback, outfit_description, recommendations,
                   remixing_suggestions, posts, seen>>

\* Lines 70-74: the combined JSON, status 200.
respond ==
    /\ pc = "remixed"
    /\ response' = Reply(200, ("feedback" :> feedback)
                                @@ ("recommendations" :> recommendations)
                                @@ ("remixing_suggestions" :> remixing_suggestions))
    /\ steps' = Append(steps, "respond")
    /\ pc' = "done"
    /\ UNCHANGED <<request, disk, disk_before, image_path, saved_to, mock,
                   feedback, outfit_description, recommendations,
                   remixing_suggestions, posts, seen>>

Receive == \E req \in Requests : receive(req)
Save == save_file
Analyze == \E m \in ModelOutcomes : analyze(m)
Suggest == \E r \in Responses : suggestions(r)
Remix == \E r \in Responses : remixing(r)
Respond == respond

Next == Receive \/ Save \/ Analyze \/ Suggest \/ Remix \/ Respond

Spec == Init /\ [][Next]_vars

(***************************************************************************)
(* Two requests compared.  One finished request is remembered with its     *)
(* input and its response; later requests are compared with it.  Explored  *)
(* with fewer inputs, since every pair of requests is visited.             *)
(***************************************************************************)
PairRequests ==
    { NoRequest,
      [has_file |-> TRUE, filename |-> Name(FALSE, <<"photo.png">>), content |-> "image"],
      [has_file |-> TRUE, filename |-> Name(FALSE, <<"photo.png">>), content |-> "garbage"],
      [has_file |-> TRUE, filename |-> Name(FALSE, <<"sub", "photo.png">>), content |-> "image"] }

PairModelOutcomes ==
    { ModelError,
      ModelOutput(Uniform(Len(clothing_items)), Uniform(Len(styles))),
      ModelOutput([i \in 1..Len(clothing_items) |-> i % (MaxProb + 1)],
                  [i \in 1..Len(styles) |-> i % (MaxProb + 1)]) }

PairResponses ==
    { Resp("connection_error", 0, NoBody), Resp("ok", 500, NoBody),
      Resp("ok", 200, Json("dict", "list", "dict", "dict", "null")),
      Resp("ok", 200, Json("dict", "list", "dict", "dict", "text_a")) }

remember ==
    /\ pc = "done"
    /\ seen = NotSeen
    /\ seen' = [input |-> Input, response |-> response, current |-> TRUE]
    /\ UNCHANGED <<pc, request, disk, disk_before, image_path, saved_to, mock,
                   feedback, outfit_description, recommendations,
                   remixing_suggestions, posts, steps, response>>

PairReceive == \E req \in PairRequests : receive(req)
PairAnalyze == \E m \in PairModelOutcomes : analyze(m)
PairSuggest == \E r \in PairResponses : suggestions(r)
PairRemix == \E r \in PairResponses : remixing(r)
Remember == remember

PairNext ==
    PairReceive \/ Save \/ PairAnalyze \/ PairSuggest \/ PairRemix \/ Respond
        \/ Remember

PairSpec == Init /\ [][PairNext]_vars

(***************************************************************************)
(* analyze_outfit alone, on every pair of probability vectors in which one *)
(* of the two is uniform: the request has been saved, the model output is  *)
(* drawn at the start.                                                     *)
(***************************************************************************)
PhotoRequest ==
    [has_file |-> TRUE, filename |-> Name(FALSE, <<"photo.png">>), content |-> "image"]

\* The state after lines 38-55 on PhotoRequest.
Saved(m, r1, r2) ==
    /\ pc = "saved"
    /\ request = PhotoRequest
    /\ disk = save(InitialDisk, Resolve(join(PhotoRequest.filename)), "image")
    /\ disk_before = InitialDisk
    /\ image_path = join(PhotoRequest.filename)
    /\ saved_to = Resolve(join(PhotoRequest.filename))
    /\ mock = [model |-> m, resp1 |-> r1, resp2 |-> r2]
    /\ feedback = Unset
    /\ outfit_description = Unset
    /\ recommendations = Unset
    /\ remixing_suggestions = Unset
    /\ posts = <<>>
    /\ steps = <<"validate", "save">>
    /\ response = NoResponse
    /\ seen = NotSeen

TopInit ==
    \/ \E p \in AllProbs(Len(clothing_items)) :
          Saved(ModelOutput(p, Uniform(Len(styles))), NoResp, NoResp)
    \/ \E p \in AllProbs(Len(styles)) :
          Saved(ModelOutput(Uniform(Len(clothing_items)), p), NoResp, NoResp)

TopAnalyze == analyze(mock.model)

TopNext == TopAnalyze

TopSpec == TopInit /\ [][TopNext]_vars

(***************************************************************************)
(* The two clients alone, on every pair of outcomes of the two POSTs.      *)
(***************************************************************************)
ApiInit ==
    \E r1 \in AllResponses, r2 \in AllResponses :
        Saved(ModelOutput(Uniform(Len(clothing_items)), Uniform(Len(styles))),
              r1, r2)

ApiAnalyze == analyze(mock.model)
ApiSuggest == suggestions(mock.resp1)
ApiRemix == remixing(mock.resp2)

ApiNext == ApiAnalyze \/ ApiSuggest \/ ApiRemix \/ Respond

ApiSpec == ApiInit /\ [][ApiNext]_vars

(***************************************************************************)
(* Properties.                                                             *)
(***************************************************************************)
Done == pc = "done"

\* The request passed the checks of lines 40-48.
Validated == request.has_file /\ request.filename # EmptyName

Keys(r) == DOMAIN r.body

ThreeFields == {"feedback", "recommendations", "remixing_suggestions"}

\* file.save raised.
SaveFailed == Done /\ Validated /\ saved_to = NoTarget

AnalysisReached == pc \in {"analyzed", "suggested", "remixed", "done"} /\ mock.model # NotRun

\* Image.open or the model raised inside analyze_outfit.
AnalysisFailed ==
    AnalysisReached /\ (request.content # "image" \/ mock.model = ModelError)

\* The try block of a client raised (whatever the exception).
ClientFailed(r) == r # NoResp /\ extract(r).raised # ""

\* C1: a request that fails validation is answered 400 with only an 'error'
\* field, 'No file uploaded' without a file part and 'No file selected' with an
\* empty file name; it is never answered 200 or 500.
C1_ValidationFailureIs400 ==
    (Done /\ ~Validated) =>
        /\ response.status = 400
        /\ Keys(response) = {"error"}
        /\ response.body["error"] =
              IF ~request.has_file THEN PyStr(<<"No file uploaded">>)
              ELSE PyStr(<<"No file selected">>)

C1_Witness ==
    /\ Done
    /\ request.has_file
    /\ request.filename = EmptyName
    /\ response.status = 400
    /\ disk # InitialDisk

\* C3 as stated: every failure after validation (save, analysis, either LLM
\* call) ends in an {"error": ...} response with a non-200 status, and the three
\* fields are returned only when no step failed.
C3_EveryFailureIsAnError ==
    (Done /\ Validated) =>
        LET failed == SaveFailed \/ AnalysisFailed \/ ClientFailed(mock.resp1)
                        \/ ClientFailed(mock.resp2)
        IN  /\ failed => (response.status # 200 /\ Keys(response) = {"error"})
            /\ Keys(response) = ThreeFields => ~failed

\* C3 amended: of the failures after validation only a failing save reaches
\* the outer handler and is answered 500 with only an 'error' field; failures
\* of the analysis or of an LLM call are replaced by strings, and whenever the
\* save succeeded the answer is 200 with the three fields.
C3_OnlySaveFailureIs500 ==
    (Done /\ Validated) =>
        /\ SaveFailed =>
              /\ response.status = 500
              /\ Keys(response) = {"error"}
              /\ response.body["error"].type = "str"
              /\ Head(response.body["error"].val) = "Error in /upload: "
        /\ ~SaveFailed =>
              /\ response.status = 200
              /\ Keys(response) = ThreeFields
              /\ AnalysisFailed =>
                    response.body["feedback"] = PyStr(<<"Error analyzing outfit.">>)
              /\ ClientFailed(mock.resp1) =>
                    /\ response.body["recommendations"].type = "str"
                    /\ Head(response.body["recommendations"].val) \in
                          {"Network error during API call: ",
                           "Error generating suggestions: "}
              /\ ClientFailed(mock.resp2) =>
                    /\ response.body["remixing_suggestions"].type = "str"
                    /\ Head(response.body["remixing_suggestions"].val) \in
                          {"Network error during API call: ",
                           "Error generating remixing suggestions: "}

\* A 200 although the analysis and both LLM calls failed.
C3_Witness ==
    /\ Done
    /\ Validated
    /\ response.status = 200
    /\ AnalysisFailed
    /\ ClientFailed(mock.resp1)
    /\ ClientFailed(mock.resp2)

Order == <<"validate", "save", "analyze", "suggest", "remix", "respond">>

\* C5: the steps of a request happen in the order validate, save, analyze,
\* suggest, remix, respond, each at most once (a request makes at most two
\* POSTs, one per client), and after a failed validation nothing is saved,
\* analysed or posted.
C5_FixedOrder ==
    /\ \E n \in 0..Len(Order) :
          \/ steps = SubSeq(Order, 1, n)
          \/ n >= 1 /\ steps = Append(SubSeq(Order, 1, n), "respond")
    /\ Len(posts) = Cardinality({i \in DOMAIN steps : steps[i] \in {"suggest", "remix"}})
    /\ Len(posts) <= 2
    /\ Done = (steps # <<>> /\ steps[Len(steps)] = "respond")
    /\ (Done /\ ~Validated) =>
          /\ steps = <<"validate", "respond">>
          /\ disk = disk_before
          /\ saved_to = NoTarget
          /\ mock = NoMock
          /\ posts = <<>>

\* A whole request in which both POSTs failed, and none was repeated.
C5_Witness ==
    /\ steps = Order
    /\ Len(posts) = 2
    /\ ApiFailure(mock.resp1)
    /\ ApiFailure(mock.resp2)

\* C7 as stated: once upload has returned, the file it saved is gone and the
\* files on disk are those that were there before the request.
C7_FileIsEphemeral ==
    Done =>
        /\ DOMAIN disk = DOMAIN disk_before
        /\ (saved_to # NoTarget /\ saved_to \notin DOMAIN disk_before)
              => saved_to \notin DOMAIN disk

\* C7 amended: the file a request saved stays on disk, with the uploaded
\* content, after upload has returned (nothing deletes it); the disk differs
\* from the disk before the request in that file only, and is unchanged when
\* nothing was saved.
C7_FilePersists ==
    /\ saved_to # NoTarget =>
          /\ saved_to \in DOMAIN disk
          /\ disk[saved_to] = request.content
          /\ DOMAIN disk = DOMAIN disk_before \cup {saved_to}
          /\ \A p \in DOMAIN disk_before \ {saved_to} : disk[p] = disk_before[p]
    /\ saved_to = NoTarget => disk = disk_before

\* upload has answered 200 and the file it created is still there.
C7_Witness ==
    /\ Done
    /\ response.status = 200
    /\ saved_to \notin DOMAIN disk_before
    /\ saved_to \in DOMAIN disk

\* C9: when the analysis fails, analyze_outfit returns ('Error analyzing
\* outfit.', 'Outfit analysis failed.'), both LLM calls are made with these
\* strings in their prompts, and the answer is 200 with 'feedback' equal to
\* 'Error analyzing outfit.', never a 500.
C9_AnalysisFailureFallsBack ==
    AnalysisFailed =>
        /\ feedback = PyStr(<<"Error analyzing outfit.">>)
        /\ outfit_description = PyStr(<<"Outfit analysis failed.">>)
        /\ pc \in {"suggested", "remixed", "done"} =>
              posts[1] = <<"Suggest 3 outfits for a ", "Error analyzing outfit.",
                           " look. Keep it short and simple.">>
        /\ pc \in {"remixed", "done"} =>
              posts[2] = <<"The user is wearing: ", "Outfit analysis failed.",
                           ". Suggest 3 ways to remix this outfit.">>
        /\ Done =>
              /\ Len(posts) = 2
              /\ response.status = 200
              /\ Keys(response) = ThreeFields
              /\ response.body["feedback"] = PyStr(<<"Error analyzing outfit.">>)

\* The model raised on a readable image, and the request was answered.
C9_Witness ==
    /\ Done
    /\ request.content = "image"
    /\ mock.model = ModelError
    /\ response.status = 200

\* C10 as stated: whatever the file name, the file is written inside
\* 'uploads', and no file outside 'uploads' is created or overwritten.
C10_SavesInsideUploads ==
    /\ saved_to # NoTarget => InsideUploads(saved_to)
    /\ \A p \in DOMAIN disk :
          InsideUploads(p) \/ (p \in DOMAIN InitialDisk /\ disk[p] = InitialDisk[p])

\* The text of the exception of a failed exchange.
ApiError(r) == IF r.net # "ok" THEN r.net ELSE "HTTPError"

\* An earlier request is remembered, and another one has been received since.
Earlier == seen # NotSeen /\ ~seen.current

\* C2: a connection error or an HTTP 4xx/5xx in either client does not crash
\* the request: the answer is 200 with the three fields, the field of the
\* failing call holds the error string, and the two other fields are what they
\* are in a request that differs only in the outcome of that call.
C2_ApiFailureDoesNotCrash ==
    (Done /\ (ApiFailure(mock.resp1) \/ ApiFailure(mock.resp2))) =>
        /\ response.status = 200
        /\ Keys(response) = ThreeFields
        /\ ApiFailure(mock.resp1) =>
              response.body["recommendations"] =
                  PyStr(<<"Network error during API call: ", ApiError(mock.resp1)>>)
        /\ ApiFailure(mock.resp2) =>
              response.body["remixing_suggestions"] =
                  PyStr(<<"Network error during API call: ", ApiError(mock.resp2)>>)
        /\ (Earlier /\ seen.input[1] = request /\ seen.input[2].model = mock.model) =>
              /\ Keys(seen.response) = ThreeFields
              /\ response.body["feedback"] = seen.response.body["feedback"]
              /\ seen.input[2].resp1 = mock.resp1 =>
                    response.body["recommendations"]
                        = seen.response.body["recommendations"]
              /\ seen.input[2].resp2 = mock.resp2 =>
                    response.body["remixing_suggestions"]
                        = seen.response.body["remixing_suggestions"]

\* The first POST failed in this request and succeeded in the remembered one,
\* which is otherwise the same.
C2_Witness ==
    /\ Done
    /\ Earlier
    /\ ApiFailure(mock.resp1)
    /\ ~ApiFailure(mock.resp2)
    /\ seen.input[1] = request
    /\ seen.input[2].model = mock.model
    /\ seen.input[2].resp2 = mock.resp2
    /\ WellFormed(seen.input[2].resp1.json)
    /\ mock.model.ok
    /\ request.content = "image"
    /\ response.status = 200

\* Two requests met the same model output and the same API responses, as far
\* as both of them got (a request that ends early leaves the rest unused).
SameMocks(a, b) ==
    /\ a.model = b.model \/ NotRun \in {a.model, b.model}
    /\ a.resp1 = b.resp1 \/ NoResp \in {a.resp1, b.resp1}
    /\ a.resp2 = b.resp2 \/ NoResp \in {a.resp2, b.resp2}

\* C6: two requests with the same file, the same model outputs and the same
\* API responses get the same status and the same three fields, whatever was
\* handled in between and before, ties between labels included.
C6_Deterministic ==
    (Done /\ Earlier /\ seen.input[1] = request /\ SameMocks(seen.input[2], mock)) =>
        /\ response.status = seen.response.status
        /\ \A k \in ThreeFields :
              /\ (k \in Keys(response)) = (k \in Keys(seen.response))
              /\ k \in Keys(response) => response.body[k] = seen.response.body[k]

\* The same request again, all labels tied, after a request that left another
\* content in the same file.
C6_Witness ==
    /\ Done
    /\ Earlier
    /\ seen.input = Input
    /\ response.status = 200
    /\ request.content = "image"
    /\ mock.model = ModelOutput(Uniform(Len(clothing_items)), Uniform(Len(styles)))
    /\ saved_to \in DOMAIN disk_before
    /\ disk_before[saved_to] = "garbage"

ErrorPrefixes ==
    {"Network error during API call: ", "Error generating suggestions: ",
     "Error generating remixing suggestions: ",
     "Error: No 'choices' found in API response: "}

\* What C4 says a client returns on outcome r.
ReturnsString(v, r) ==
    /\ v.type = "str"
    /\ IF ~ApiFailure(r) /\ WellFormed(r.json)
       THEN v = PyStr(<<r.json.content>>)
       ELSE Head(v.val) \in ErrorPrefixes

\* C4 as stated: on every outcome of the POST both clients return a string,
\* the first choice's message content when the response is well formed and a
\* fallback error string otherwise (a null 'content' included).
C4_ClientsReturnStrings ==
    /\ recommendations # Unset => ReturnsString(recommendations, mock.resp1)
    /\ remixing_suggestions # Unset => ReturnsString(remixing_suggestions, mock.resp2)

Range(f) == {f[i] : i \in DOMAIN f}

Index(labels, l) == CHOOSE i \in DOMAIN labels : labels[i] = l

\* The three labels interpolated into one of analyze_outfit's strings.
Picked(v) == <<v.val[2], v.val[4], v.val[6]>>

\* picked holds three distinct labels, ordered by probability and then by
\* position in the vocabulary, and every other label comes after the third.
IsTopThree(labels, probs, picked) ==
    /\ \A k \in 1..3 : picked[k] \in Range(labels)
    /\ Cardinality(Range(picked)) = 3
    /\ \A k \in 1..2 :
          LET a == Index(labels, picked[k])
              b == Index(labels, picked[k + 1])
          IN  probs[a] > probs[b] \/ (probs[a] = probs[b] /\ a < b)
    /\ \A i \in DOMAIN labels :
          labels[i] \notin Range(picked) =>
              LET c == Index(labels, picked[3])
              IN  probs[i] < probs[c] \/ (probs[i] = probs[c] /\ i > c)

\* C8: when analyze_outfit succeeds, the three styles in 'feedback' and the
\* three garments in 'outfit_description' are distinct labels of their
\* vocabulary, the three most probable ones, in non-increasing order of
\* probability, labels of equal probability in vocabulary order.
C8_TopThree ==
    (pc = "analyzed" /\ mock.model.ok) =>
        /\ Len(feedback.val) = 7
        /\ Len(outfit_description.val) = 7
        /\ IsTopThree(styles, mock.model.styles, Picked(feedback))
        /\ IsTopThree(clothing_items, mock.model.items, Picked(outfit_description))

\* Three different probabilities, the third tied with every label left out.
C8_Witness ==
    /\ pc = "analyzed"
    /\ mock.model.ok
    /\ mock.model.items[3] = 2
    /\ mock.model.items[5] = 1
    /\ Raised(mock.model.items) = 2
    /\ Picked(outfit_description) = <<"jeans", "jacket", "suit">>

====
